---- MODULE Spec2Model ----
(***************************************************************************)
(* Relayer discovery (axelar-amplifier-solana).                            *)
(*                                                                         *)
(* The destination program publishes a Borsh serialised RelayerTransaction *)
(* in its transaction_pda.  The relayer fetches it, and while the held     *)
(* RelayerTransaction is not final it converts it into a regular           *)
(* transaction, simulates it and decodes the return data as the next       *)
(* RelayerTransaction; the final one is funded and executed.               *)
(***************************************************************************)
EXTENDS Integers, Sequences, FiniteSets, TLC

(***************************************************************************)
(* Bounds of the model.                                                    *)
(***************************************************************************)
MaxChain == 2       \* non-final descriptors in front of the last buffer
MaxExecCost == 1    \* lamports the execution itself may need
WalletReserve == 10 \* what the relayer owns beyond the gas offered
MaxAccounts == 2    \* accounts of an instruction given to the codec
MaxData == 2        \* data elements of an instruction given to the codec
MaxChunks == 3      \* data elements of an instruction given to the conversion

\* The model follows a chain that never becomes final for this many rounds.
RoundCap == MaxChain + 3

(***************************************************************************)
(* Program constants.                                                      *)
(***************************************************************************)
PUBKEY_BYTES == 32
HASH_BYTES == 32
RELAYER_DISCOVERY_BUILD_TRANSACTION_1 == 5
RELAYER_DISCOVERY_BUILD_TRANSACTION_2 == 6
EXECUTE == 9
INTERCHAIN_TRANSFER_COST == 1000

\* Largest integer of the model (2^31 - 1).
U64_MODEL_MAX == 2147483647

Byte == 0..255

RECURSIVE Concat(_)
\* Concatenation of a sequence of byte strings, in order.
Concat(ss) ==
    IF ss = <<>> THEN <<>> ELSE Head(ss) \o Concat(Tail(ss))

(***************************************************************************)
(* Borsh primitives.                                                       *)
(***************************************************************************)
U32LE(n) ==
    << n % 256, (n \div 256) % 256, (n \div 65536) % 256,
       (n \div 16777216) % 256 >>

\* u64, little endian.  The model's integers stop at U64_MODEL_MAX, so the
\* upper four bytes of every value it serialises are zero.
U64LE(n) == U32LE(n) \o <<0, 0, 0, 0>>

EncBool(b) == << IF b THEN 1 ELSE 0 >>

\* Vec<u8> and String: u32 length prefix, then the bytes.
EncBytes(bs) == U32LE(Len(bs)) \o bs

\* A 32-byte key all of whose bytes are k.
Key(k) == [i \in 1..PUBKEY_BYTES |-> k]

(***************************************************************************)
(* The wire types and their Borsh serialisation.                           *)
(***************************************************************************)
AccountMeta(pubkey, is_signer, is_writable) ==
    [pubkey |-> pubkey, is_signer |-> is_signer, is_writable |-> is_writable]

\* enum RelayerData { Bytes(Vec<u8>), Message() }
Bytes(bs) == [kind |-> "Bytes", bytes |-> bs]
Message == [kind |-> "Message"]

\* enum RelayerAccount { Account(AccountMeta), IncomingMessage(),
\*                       MessagePayload(), Payer(Uint64) }
Account(meta) == [kind |-> "Account", meta |-> meta]
IncomingMessage == [kind |-> "IncomingMessage"]
MessagePayload == [kind |-> "MessagePayload"]
Payer(lamports) == [kind |-> "Payer", lamports |-> lamports]

RelayerInstruction(program, accounts, data) ==
    [program |-> program, accounts |-> accounts, data |-> data]

RelayerTransaction(is_final, instructions) ==
    [is_final |-> is_final, instructions |-> instructions]

EncAccountMeta(m) ==
    m.pubkey \o EncBool(m.is_signer) \o EncBool(m.is_writable)

EncRelayerData(d) ==
    IF d.kind = "Bytes" THEN <<0>> \o EncBytes(d.bytes) ELSE <<1>>

\* EncRelayerAccount, with the discriminants of the two message accounts
\* exchanged.
EncRelayerAccount_Exchanged(a) ==
    CASE a.kind = "Account" -> <<0>> \o EncAccountMeta(a.meta)
      [] a.kind = "IncomingMessage" -> <<2>>
      [] a.kind = "MessagePayload" -> <<1>>
      [] a.kind = "Payer" -> <<3>> \o U64LE(a.lamports)

EncRelayerAccount(a) ==
    CASE a.kind = "Account" -> <<0>> \o EncAccountMeta(a.meta)
      [] a.kind = "IncomingMessage" -> <<1>>
      [] a.kind = "MessagePayload" -> <<2>>
      [] a.kind = "Payer" -> <<3>> \o U64LE(a.lamports)

EncRelayerInstruction(ix) ==
    ix.program
      \o U32LE(Len(ix.accounts))
      \o Concat([i \in 1..Len(ix.accounts) |-> EncRelayerAccount(ix.accounts[i])])
      \o U32LE(Len(ix.data))
      \o Concat([i \in 1..Len(ix.data) |-> EncRelayerData(ix.data[i])])

\* to_vec(transaction)
Encode(tx) ==
    EncBool(tx.is_final)
      \o U32LE(Len(tx.instructions))
      \o Concat([i \in 1..Len(tx.instructions) |->
                   EncRelayerInstruction(tx.instructions[i])])

(***************************************************************************)
(* Borsh deserialisation.  A reader takes the buffer b and the position p  *)
(* of the next unread byte and returns either Err or Ok(value, next        *)
(* position).                                                              *)
(***************************************************************************)
Err == [ok |-> FALSE]
Ok(v, p) == [ok |-> TRUE, val |-> v, pos |-> p]

\* r, then F of what r read; the error of r when it failed.  (r is
\* evaluated once.)
Then(r, F(_)) ==
    CHOOSE y \in { IF x.ok THEN F(x) ELSE Err : x \in {r} } : TRUE

DecU8(b, p) == IF p > Len(b) THEN Err ELSE Ok(b[p], p + 1)

DecBool(b, p) ==
    IF p > Len(b) THEN Err
    ELSE IF b[p] = 0 THEN Ok(FALSE, p + 1)
    ELSE IF b[p] = 1 THEN Ok(TRUE, p + 1)
    ELSE Err

\* Values above U64_MODEL_MAX are read as U64_MODEL_MAX: as a length such a
\* value exceeds every buffer of the model, which is all that is used of it.
DecU32(b, p) ==
    IF p + 3 > Len(b) THEN Err
    ELSE IF b[p + 3] >= 128 THEN Ok(U64_MODEL_MAX, p + 4)
    ELSE Ok(b[p] + 256 * b[p + 1] + 65536 * b[p + 2] + 16777216 * b[p + 3],
            p + 4)

DecU64(b, p) ==
    IF p + 7 > Len(b) THEN Err
    ELSE IF \E i \in 4..7 : b[p + i] # 0 THEN Ok(U64_MODEL_MAX, p + 8)
    ELSE Ok(DecU32(b, p).val, p + 8)

\* [u8; n]: verbatim, no length prefix.
DecArray(b, p, n) ==
    IF n > Len(b) + 1 - p THEN Err ELSE Ok(SubSeq(b, p, p + n - 1), p + n)

\* Vec<u8> / String
DecBytes(b, p) ==
    Then(DecU32(b, p), LAMBDA n : DecArray(b, n.pos, n.val))

DecAccountMeta(b, p) ==
    Then(DecArray(b, p, PUBKEY_BYTES), LAMBDA k :
    Then(DecBool(b, k.pos), LAMBDA s :
    Then(DecBool(b, s.pos), LAMBDA w :
      Ok(AccountMeta(k.val, s.val, w.val), w.pos))))

\* DecRelayerData, reading any discriminant but 0 as Message.
DecRelayerData_Lenient(b, p) ==
    Then(DecU8(b, p), LAMBDA t :
      IF t.val = 0
      THEN Then(DecBytes(b, t.pos), LAMBDA bs : Ok(Bytes(bs.val), bs.pos))
      ELSE Ok(Message, t.pos))

DecRelayerData(b, p) ==
    Then(DecU8(b, p), LAMBDA t :
      IF t.val = 0
      THEN Then(DecBytes(b, t.pos), LAMBDA bs : Ok(Bytes(bs.val), bs.pos))
      ELSE IF t.val = 1 THEN Ok(Message, t.pos)
      ELSE Err)

DecRelayerAccount(b, p) ==
    Then(DecU8(b, p), LAMBDA t :
      IF t.val = 0
      THEN Then(DecAccountMeta(b, t.pos), LAMBDA m : Ok(Account(m.val), m.pos))
      ELSE IF t.val = 1 THEN Ok(IncomingMessage, t.pos)
      ELSE IF t.val = 2 THEN Ok(MessagePayload, t.pos)
      ELSE IF t.val = 3
      THEN Then(DecU64(b, t.pos), LAMBDA l : Ok(Payer(l.val), l.pos))
      ELSE Err)

RECURSIVE DecDataSeq(_, _, _, _)
\* n more RelayerData elements, acc the ones read so far.
DecDataSeq(b, p, n, acc) ==
    IF n = 0 THEN Ok(acc, p)
    ELSE Then(DecRelayerData(b, p), LAMBDA e :
           DecDataSeq(b, e.pos, n - 1, Append(acc, e.val)))

RECURSIVE DecAccountSeq(_, _, _, _)
DecAccountSeq(b, p, n, acc) ==
    IF n = 0 THEN Ok(acc, p)
    ELSE Then(DecRelayerAccount(b, p), LAMBDA e :
           DecAccountSeq(b, e.pos, n - 1, Append(acc, e.val)))

DecRelayerInstruction(b, p) ==
    Then(DecArray(b, p, PUBKEY_BYTES), LAMBDA k :
    Then(DecU32(b, k.pos), LAMBDA na :
    Then(DecAccountSeq(b, na.pos, na.val, <<>>), LAMBDA as :
    Then(DecU32(b, as.pos), LAMBDA nd :
    Then(DecDataSeq(b, nd.pos, nd.val, <<>>), LAMBDA ds :
      Ok(RelayerInstruction(k.val, as.val, ds.val), ds.pos))))))

RECURSIVE DecInstructionSeq(_, _, _, _)
DecInstructionSeq(b, p, n, acc) ==
    IF n = 0 THEN Ok(acc, p)
    ELSE Then(DecRelayerInstruction(b, p), LAMBDA e :
           DecInstructionSeq(b, e.pos, n - 1, Append(acc, e.val)))

DecRelayerTransaction(b) ==
    Then(DecBool(b, 1), LAMBDA f :
    Then(DecU32(b, f.pos), LAMBDA n :
    Then(DecInstructionSeq(b, n.pos, n.val, <<>>), LAMBDA is :
      IF is.pos # Len(b) + 1 THEN Err
      ELSE [ok |-> TRUE, val |-> RelayerTransaction(f.val, is.val)])))

\* RelayerTransaction::try_from_slice: the whole buffer must be consumed.
Decode(bytes) ==
    CHOOSE y \in { DecRelayerTransaction(b) : b \in {bytes} } : TRUE

(***************************************************************************)
(* The message being relayed and its Borsh serialisation (gateway IDL      *)
(* types Message and CrossChainId).  Strings are byte strings.             *)
(***************************************************************************)
EncCrossChainId(c) == EncBytes(c.chain) \o EncBytes(c.id)

EncMessage(m) ==
    EncCrossChainId(m.cc_id)
      \o EncBytes(m.source_address)
      \o EncBytes(m.destination_chain)
      \o EncBytes(m.destination_address)
      \o m.payload_hash

(***************************************************************************)
(* Conversion of a RelayerInstruction into a regular Instruction.  ctx     *)
(* holds what the relayer knows of the call: the payer, the                *)
(* incoming_message_pda, the message_payload_pda and the message.          *)
(***************************************************************************)
\* ResolveAccount, with the two accounts of the message taken for each
\* other.
ResolveAccount_HandlesExchanged(a, ctx) ==
    CASE a.kind = "Account" -> a.meta
      [] a.kind = "IncomingMessage" ->
           AccountMeta(ctx.message_payload_pda, FALSE, TRUE)
      [] a.kind = "MessagePayload" ->
           AccountMeta(ctx.incoming_message_pda, FALSE, FALSE)
      [] a.kind = "Payer" -> AccountMeta(ctx.payer, TRUE, TRUE)

ResolveAccount(a, ctx) ==
    CASE a.kind = "Account" -> a.meta
      [] a.kind = "IncomingMessage" ->
           AccountMeta(ctx.incoming_message_pda, FALSE, TRUE)
      [] a.kind = "MessagePayload" ->
           AccountMeta(ctx.message_payload_pda, FALSE, FALSE)
      [] a.kind = "Payer" -> AccountMeta(ctx.payer, TRUE, TRUE)

DataBytes(d, ctx) ==
    IF d.kind = "Bytes" THEN d.bytes ELSE EncMessage(ctx.message)

\* ConvertData, concatenating from the last element to the first.
ConvertData_Reversed(data, ctx) ==
    Concat([i \in 1..Len(data) |-> DataBytes(data[Len(data) + 1 - i], ctx)])

ConvertData(data, ctx) ==
    Concat([i \in 1..Len(data) |-> DataBytes(data[i], ctx)])

\* ConvertInstruction, leaving out the accounts of the message instead of
\* resolving them in place.
ConvertInstruction_WithoutHandles(ix, ctx) ==
    [program_id |-> ix.program,
     accounts   |-> [i \in 1..Len(SelectSeq(ix.accounts,
                                   LAMBDA a : a.kind \in {"Account", "Payer"})) |->
                       ResolveAccount(
                         SelectSeq(ix.accounts,
                           LAMBDA a : a.kind \in {"Account", "Payer"})[i], ctx)],
     data       |-> ConvertData(ix.data, ctx)]

ConvertInstruction(ix, ctx) ==
    [program_id |-> ix.program,
     accounts   |-> [i \in 1..Len(ix.accounts) |->
                       ResolveAccount(ix.accounts[i], ctx)],
     data       |-> ConvertData(ix.data, ctx)]

\* The regular transaction of a RelayerTransaction: its instructions,
\* converted, in order.
ConvertTransaction(tx, ctx) ==
    [i \in 1..Len(tx.instructions) |-> ConvertInstruction(tx.instructions[i], ctx)]

RECURSIVE SumLamports(_)
\* The lamports of the payer entries of a list of accounts.
SumLamports(accounts) ==
    IF accounts = <<>> THEN 0
    ELSE (IF Head(accounts).kind = "Payer" THEN Head(accounts).lamports ELSE 0)
           + SumLamports(Tail(accounts))

RECURSIVE SumInstructions(_)
SumInstructions(ixs) ==
    IF ixs = <<>> THEN 0
    ELSE SumLamports(Head(ixs).accounts) + SumInstructions(Tail(ixs))

\* FundsRequested, looking at the first instruction only.
FundsRequested_FirstInstruction(tx) ==
    IF tx.instructions = << >> THEN 0
    ELSE SumLamports(tx.instructions[1].accounts)

\* The funds a RelayerTransaction requests for its payer.
FundsRequested(tx) == SumInstructions(tx.instructions)

(***************************************************************************)
(* The call being relayed.                                                 *)
(***************************************************************************)
PROGRAM_ID == Key(1)                \* crate::id(), the destination address
PAYER == Key(2)
INCOMING_MESSAGE_PDA == Key(3)
MESSAGE_PAYLOAD_PDA == Key(4)
TOKEN_MANAGER_PDA == Key(5)
GATEWAY_SIGNING_PDA == Key(8)
KEY_A == Key(6)
KEY_X == Key(7)

TheMessage ==
    [cc_id               |-> [chain |-> <<101, 116, 104>>, id |-> <<48, 120>>],
     source_address      |-> <<115>>,
     destination_chain   |-> <<115, 111, 108>>,
     destination_address |-> <<100, 115, 116>>,
     payload_hash        |-> [i \in 1..HASH_BYTES |-> 170]]

Ctx ==
    [payer                |-> PAYER,
     incoming_message_pda |-> INCOMING_MESSAGE_PDA,
     message_payload_pda  |-> MESSAGE_PAYLOAD_PDA,
     message              |-> TheMessage]

(***************************************************************************)
(* RelayerTransactions a destination program may publish or return.        *)
(***************************************************************************)
\* The transaction the executable stores in its transaction_pda.
InitialTransaction ==
    RelayerTransaction(FALSE,
      << RelayerInstruction(PROGRAM_ID,
           << MessagePayload >>,
           << Bytes(<<RELAYER_DISCOVERY_BUILD_TRANSACTION_1>>) >>) >>)

\* What relayer_discovery_build_transaction_1 returns.
BuildTransaction1 ==
    RelayerTransaction(FALSE,
      << RelayerInstruction(PROGRAM_ID,
           << MessagePayload,
              Account(AccountMeta(TOKEN_MANAGER_PDA, FALSE, TRUE)) >>,
           << Bytes(<<RELAYER_DISCOVERY_BUILD_TRANSACTION_2>>), Message >>) >>)

\* What relayer_discovery_build_transaction_2 returns, its account list
\* abridged to the first four entries.
BuildTransaction2 ==
    RelayerTransaction(TRUE,
      << RelayerInstruction(PROGRAM_ID,
           << Payer(INTERCHAIN_TRANSFER_COST),
              IncomingMessage,
              MessagePayload,
              Account(AccountMeta(GATEWAY_SIGNING_PDA, FALSE, FALSE)) >>,
           << Bytes(<<EXECUTE>>), Message >>) >>)

\* A non-final transaction that asks for a payer.
NonFinalWithPayer ==
    RelayerTransaction(FALSE,
      << RelayerInstruction(PROGRAM_ID,
           << Payer(7), IncomingMessage >>,
           << Message, Bytes(<<RELAYER_DISCOVERY_BUILD_TRANSACTION_2, 0>>) >>) >>)

\* A final transaction without a payer.
FinalNoPayer ==
    RelayerTransaction(TRUE,
      << RelayerInstruction(PROGRAM_ID,
           << Account(AccountMeta(KEY_A, FALSE, FALSE)) >>,
           << Bytes(<<1>>) >>) >>)

\* A final transaction of two instructions with three payer entries.
FinalTwoInstructions ==
    RelayerTransaction(TRUE,
      << RelayerInstruction(PROGRAM_ID,
           << Payer(3), MessagePayload, Payer(4) >>,
           << Bytes(<<EXECUTE>>), Message >>),
         RelayerInstruction(KEY_A,
           << Payer(5) >>,
           << >>) >>)

\* A final transaction with a payer, the two accounts of the message and a
\* writable hardcoded account.
FinalWithWritable ==
    RelayerTransaction(TRUE,
      << RelayerInstruction(PROGRAM_ID,
           << Payer(INTERCHAIN_TRANSFER_COST),
              IncomingMessage,
              MessagePayload,
              Account(AccountMeta(KEY_X, FALSE, TRUE)) >>,
           << Bytes(<<EXECUTE>>), Message >>) >>)

EmptyNonFinal == RelayerTransaction(FALSE, << >>)
EmptyFinal == RelayerTransaction(TRUE, << >>)

NonFinalTransactions == {InitialTransaction, BuildTransaction1, NonFinalWithPayer}
FinalTransactions ==
    {BuildTransaction2, FinalNoPayer, FinalTwoInstructions, FinalWithWritable,
     EmptyFinal}

(***************************************************************************)
(* What the node answers.  An answer is the serialisation of a             *)
(* RelayerTransaction, possibly damaged: cut short, or with some of its    *)
(* bytes replaced.                                                         *)
(***************************************************************************)
Intact == [kind |-> "intact"]
CutAt(n) == [kind |-> "truncated", len |-> n]
Replaced(what, pos, bytes) ==
    [kind |-> what, pos |-> pos, bytes |-> bytes]

Damaged(b, d) ==
    CASE d.kind = "intact" -> b
      [] d.kind = "truncated" -> SubSeq(b, 1, d.len)
      [] OTHER ->
           [i \in 1..Len(b) |->
              IF i >= d.pos /\ i < d.pos + Len(d.bytes)
              THEN d.bytes[i - d.pos + 1] ELSE b[i]]

Answer(tx, damage) == [tx |-> tx, damage |-> damage]

\* The bytes of an answer on the wire.
Wire(a) == Damaged(Encode(a.tx), a.damage)

\* Positions, in the serialisation of tx, of the parts of its first
\* instruction.
InstructionsLenPos == 2
AccountsLenPos == InstructionsLenPos + 4 + PUBKEY_BYTES
AccountTagPos(tx, j) ==
    AccountsLenPos + 4
      + Len(Concat([k \in 1..(j - 1) |->
                      EncRelayerAccount(tx.instructions[1].accounts[k])]))
DataLenPos(tx) == AccountTagPos(tx, Len(tx.instructions[1].accounts) + 1)
DataTagPos(tx, j) ==
    DataLenPos(tx) + 4
      + Len(Concat([k \in 1..(j - 1) |->
                      EncRelayerData(tx.instructions[1].data[k])]))

Truncations(tx) == { CutAt(n) : n \in 0..(Len(Encode(tx)) - 1) }

\* A discriminant outside the declared range, on an account or on a data
\* element of the first instruction.
BadDiscriminants(tx) ==
    { Replaced("discriminant", AccountTagPos(tx, j), <<t>>) :
        j \in 1..Len(tx.instructions[1].accounts), t \in {4, 255} }
    \cup
    { Replaced("discriminant", DataTagPos(tx, j), <<t>>) :
        j \in 1..Len(tx.instructions[1].data), t \in {2, 255} }

\* A length prefix that announces more than what is left of the input.
BadLengths(tx) ==
    LET n == Len(Encode(tx))
        big(pos) == { U32LE(n - pos - 2), <<255, 255, 255, 255>> }
    IN  { Replaced("length", InstructionsLenPos, l) : l \in big(InstructionsLenPos) }
        \cup { Replaced("length", AccountsLenPos, l) : l \in big(AccountsLenPos) }
        \cup { Replaced("length", DataLenPos(tx), l) : l \in big(DataLenPos(tx)) }
        \cup UNION { { Replaced("length", DataTagPos(tx, j) + 1, l) :
                          l \in big(DataTagPos(tx, j) + 1) } :
                        j \in { k \in 1..Len(tx.instructions[1].data) :
                                  tx.instructions[1].data[k].kind = "Bytes" } }

Damages(tx) == Truncations(tx) \cup BadDiscriminants(tx) \cup BadLengths(tx)

MalformedAnswers ==
    { Answer(BuildTransaction2, d) : d \in Damages(BuildTransaction2) }

IntactAnswers(txs) == { Answer(tx, Intact) : tx \in txs }

\* Sequences of at most n elements of S.
SeqUpTo(S, n) == UNION { [1..k -> S] : k \in 0..n }

\* A chain of answers: non-final transactions, then a last answer, which is
\* a final transaction, a malformed buffer, or one more non-final
\* transaction that its own simulation returns again and again.
Chains ==
    { Append(front, last) :
        front \in SeqUpTo(IntactAnswers(NonFinalTransactions), MaxChain),
        last \in IntactAnswers(FinalTransactions \cup NonFinalTransactions)
                   \cup MalformedAnswers }

(***************************************************************************)
(* The relayer.                                                            *)
(***************************************************************************)
VARIABLES
    state,           \* where the relayer is in its steps
    reason,          \* why it failed, "none" otherwise
    tx,              \* the RelayerTransaction it holds
    round,           \* responses parsed into a RelayerTransaction so far
    sims,            \* simulateTransaction calls made so far
    simulated,       \* the regular transaction of the last simulation
    executed,        \* the transactions submitted for execution
    published,       \* whether the executable initialised its transaction_pda
    chain,           \* the answers of the node, in order
    gas,             \* the gas offered for the message
    wallet,          \* the funds of the relayer
    payer_lamports,  \* the balance of the payer account
    requested,       \* the funds found requested at step 4
    payer_before,    \* the balance of the payer when step 4 began
    payer_submitted, \* the balance of the payer when step 5 submitted
    hstep,           \* the serialisation and conversion runs: the step,
    hin,             \*   the value given,
    hmid,            \*   what the first step made of it,
    hout,            \*   what the second step made of that
    calls,           \* several relays at once: the call each one relays,
    loops,           \*   where each relayer is in its steps,
    funds,           \*   the balances of the payers and of the relayer,
    signalled        \*   the relays told to stop

relayer == << state, reason, tx, round, sims, simulated, executed, published,
              chain, gas, wallet, payer_lamports, requested, payer_before,
              payer_submitted >>

harness == << hstep, hin, hmid, hout >>

relays == << calls, loops, funds, signalled >>

vars == << relayer, harness, relays >>

NoTransaction == [none |-> TRUE]

GasOffers == {12, INTERCHAIN_TRANSFER_COST + MaxExecCost}
PayerBalances == {5, INTERCHAIN_TRANSFER_COST + 500}

\* No serialisation or conversion run.
HarnessIdle ==
    /\ hstep = "idle"
    /\ hin = << >>
    /\ hmid = << >>
    /\ hout = << >>

\* No relays side by side.
RelaysIdle ==
    /\ calls = << >>
    /\ loops = << >>
    /\ funds = << >>
    /\ signalled = {}

Init ==
    /\ HarnessIdle
    /\ RelaysIdle
    /\ state = "Start"
    /\ reason = "none"
    /\ tx = NoTransaction
    /\ round = 0
    /\ sims = 0
    /\ simulated = << >>
    /\ executed = << >>
    /\ published \in BOOLEAN
    /\ chain \in (IF published THEN Chains ELSE {<< >>})
    /\ gas \in GasOffers
    /\ wallet = gas + WalletReserve
    /\ payer_lamports \in PayerBalances
    /\ requested = 0
    /\ payer_before = 0
    /\ payer_submitted = 0

\* The return data of the i-th simulation: the next answer of the chain; a
\* chain that ends on a non-final transaction returns it again.
ReturnData(i) ==
    Wire(chain[IF i + 1 <= Len(chain) THEN i + 1 ELSE Len(chain)])

Fail(why) ==
    /\ state' = "Failed"
    /\ reason' = why

ledger == << gas, wallet, payer_lamports, requested, payer_before,
             payer_submitted >>

\* Step 1: getAccountInfo for the transaction_pda.
GetAccountInfo ==
    /\ state = "Start"
    /\ state' = "AwaitDescriptor"
    /\ UNCHANGED << reason, tx, round, sims, simulated, executed, published,
                    chain, ledger >>
    /\ UNCHANGED << harness, relays >>

\* ParseAccount, not counting the round.
ParseAccount_Uncounted ==
    /\ state = "AwaitDescriptor"
    /\ IF ~published
       THEN Fail("AccountNotFoundError") /\ UNCHANGED tx
       ELSE LET r == Decode(Wire(chain[1]))
            IN  IF r.ok
                THEN state' = "Decoded" /\ tx' = r.val /\ UNCHANGED reason
                ELSE Fail("DecodeError") /\ UNCHANGED tx
    /\ UNCHANGED << round, sims, simulated, executed, published, chain,
                    ledger >>
    /\ UNCHANGED << harness, relays >>

\* ParseAccount, taking an account that does not exist for an account
\* without data.
ParseAccount_AbsentAsEmpty ==
    /\ state = "AwaitDescriptor"
    /\ LET r == Decode(IF published THEN Wire(chain[1]) ELSE << >>)
       IN  IF r.ok
           THEN /\ state' = "Decoded"
                /\ tx' = r.val
                /\ round' = round + 1
                /\ UNCHANGED reason
           ELSE Fail("DecodeError") /\ UNCHANGED << tx, round >>
    /\ UNCHANGED << sims, simulated, executed, published, chain, ledger >>
    /\ UNCHANGED << harness, relays >>

\* Step 2: parse the response into a RelayerTransaction.
ParseAccount ==
    /\ state = "AwaitDescriptor"
    /\ IF ~published
       THEN Fail("AccountNotFoundError") /\ UNCHANGED << tx, round >>
       ELSE LET r == Decode(Wire(chain[1]))
            IN  IF r.ok
                THEN /\ state' = "Decoded"
                     /\ tx' = r.val
                     /\ round' = round + 1
                     /\ UNCHANGED reason
                ELSE Fail("DecodeError") /\ UNCHANGED << tx, round >>
    /\ UNCHANGED << sims, simulated, executed, published, chain, ledger >>
    /\ UNCHANGED << harness, relays >>

\* Simulate, not waiting for the response to the simulation before.
Simulate_WithoutWaiting ==
    /\ state \in {"Decoded", "Simulating"}
    /\ ~tx.is_final
    /\ state' = "Simulating"
    /\ simulated' = ConvertTransaction(tx, Ctx)
    /\ sims' = sims + 1
    /\ UNCHANGED << reason, tx, round, executed, published, chain, ledger >>
    /\ UNCHANGED << harness, relays >>

\* Simulate, funding the payer a transaction that is not final asks for.
Simulate_Funding ==
    /\ state = "Decoded"
    /\ ~tx.is_final
    /\ state' = "Simulating"
    /\ simulated' = ConvertTransaction(tx, Ctx)
    /\ sims' = sims + 1
    /\ IF FundsRequested(tx) > payer_lamports
       THEN /\ payer_lamports' = FundsRequested(tx)
            /\ wallet' = wallet - (FundsRequested(tx) - payer_lamports)
            /\ gas' = gas - FundsRequested(tx)
       ELSE UNCHANGED << gas, wallet, payer_lamports >>
    /\ UNCHANGED << reason, tx, round, executed, published, chain, requested,
                    payer_before, payer_submitted >>
    /\ UNCHANGED << harness, relays >>

\* while(!relayer_transaction_is_final): convert and simulate.
Simulate ==
    /\ state = "Decoded"
    /\ ~tx.is_final
    /\ state' = "Simulating"
    /\ simulated' = ConvertTransaction(tx, Ctx)
    /\ sims' = sims + 1
    /\ UNCHANGED << reason, tx, round, executed, published, chain, ledger >>
    /\ UNCHANGED << harness, relays >>

\* SimulationReturns, the simulated instructions having spent from the payer
\* as executed ones would.
SimulationReturns_Spending ==
    /\ state = "Simulating"
    /\ round < RoundCap
    /\ LET r == Decode(ReturnData(sims))
       IN  IF r.ok
           THEN /\ state' = "Decoded"
                /\ tx' = r.val
                /\ round' = round + 1
                /\ UNCHANGED reason
           ELSE Fail("DecodeError") /\ UNCHANGED << tx, round >>
    /\ \E spent \in {0, 1} : payer_lamports' = payer_lamports - spent
    /\ UNCHANGED << sims, simulated, executed, published, chain, gas, wallet,
                    requested, payer_before, payer_submitted >>
    /\ UNCHANGED << harness, relays >>

\* relayer_transaction = simulate().return_data.decode()
SimulationReturns ==
    /\ state = "Simulating"
    /\ round < RoundCap
    /\ LET r == Decode(ReturnData(sims))
       IN  IF r.ok
           THEN /\ state' = "Decoded"
                /\ tx' = r.val
                /\ round' = round + 1
                /\ UNCHANGED reason
           ELSE Fail("DecodeError") /\ UNCHANGED << tx, round >>
    /\ UNCHANGED << sims, simulated, executed, published, chain, ledger >>
    /\ UNCHANGED << harness, relays >>

\* SimulationFails, the failed simulation being submitted again.
SimulationFails_Retried ==
    /\ \/ state = "Simulating"
       \/ state = "Failed" /\ reason = "SimulationFailure" /\ sims < RoundCap
    /\ Fail("SimulationFailure")
    /\ sims' = (IF state = "Failed" THEN sims + 1 ELSE sims)
    /\ UNCHANGED << tx, round, simulated, executed, published, chain,
                    ledger >>
    /\ UNCHANGED << harness, relays >>

\* simulateTransaction reports an error.
SimulationFails ==
    /\ state = "Simulating"
    /\ Fail("SimulationFailure")
    /\ UNCHANGED << tx, round, sims, simulated, executed, published, chain,
                    ledger >>
    /\ UNCHANGED << harness, relays >>

\* Finalize, leaving the loop whatever the flag.
Finalize_AnyFlag ==
    /\ state = "Decoded"
    /\ state' = "Final"
    /\ UNCHANGED << reason, tx, round, sims, simulated, executed, published,
                    chain, ledger >>
    /\ UNCHANGED << harness, relays >>

\* The loop ends on a final RelayerTransaction.
Finalize ==
    /\ state = "Decoded"
    /\ tx.is_final
    /\ state' = "Final"
    /\ UNCHANGED << reason, tx, round, sims, simulated, executed, published,
                    chain, ledger >>
    /\ UNCHANGED << harness, relays >>

\* Fund, only ever adding to the payer.
Fund_TopUpOnly(total, payer_now) ==
    /\ payer_lamports' = (IF payer_now > total THEN payer_now ELSE total)
    /\ wallet' = wallet - (IF payer_now > total THEN 0 ELSE total - payer_now)
    /\ gas' = gas - total

\* Fund, sending the funds requested whatever the payer holds.
Fund_WholeAmount(total, payer_now) ==
    /\ payer_lamports' = payer_now + total
    /\ wallet' = wallet - total
    /\ gas' = gas - total

\* Step 4: if the gas covers the amount requested alongside what the
\* execution needs, make sure the payer has exactly the funds requested.
Fund(total, payer_now) ==
    /\ payer_lamports' = total
    /\ wallet' = wallet - (total - payer_now)
    /\ gas' = gas - total

\* FundPayer, funding as far as the gas goes when it does not cover the
\* request.
FundPayer_Partial ==
    /\ state = "Final"
    /\ \E cost \in 0..MaxExecCost :
         LET total == FundsRequested(tx)
             given == IF gas >= total + cost THEN total ELSE gas
         IN  /\ Fund(given, payer_lamports)
             /\ requested' = total
             /\ payer_before' = payer_lamports
             /\ IF gas >= total + cost
                THEN state' = "Funded" /\ UNCHANGED reason
                ELSE Fail("FundingMismatch")
             /\ UNCHANGED payer_submitted
    /\ UNCHANGED << tx, round, sims, simulated, executed, published, chain >>
    /\ UNCHANGED << harness, relays >>

FundPayer ==
    /\ state = "Final"
    /\ \E cost \in 0..MaxExecCost :
         LET total == FundsRequested(tx)
         IN  IF gas >= total + cost
             THEN /\ Fund(total, payer_lamports)
                  /\ requested' = total
                  /\ payer_before' = payer_lamports
                  /\ state' = "Funded"
                  /\ UNCHANGED << reason, payer_submitted >>
             ELSE /\ Fail("FundingMismatch")
                  /\ UNCHANGED ledger
    /\ UNCHANGED << tx, round, sims, simulated, executed, published, chain >>
    /\ UNCHANGED << harness, relays >>

\* What the executed instructions may take from a payer holding bal.
Spendings(bal) == { n \in {0, 1, bal \div 2, bal} : n <= bal }

\* Execute, submitting the transaction of the last simulation.
Execute_LastSimulated ==
    /\ state = "Funded"
    /\ executed' = Append(executed, simulated)
    /\ payer_submitted' = payer_lamports
    /\ \E spent \in Spendings(payer_lamports) :
         payer_lamports' = payer_lamports - spent
    /\ state' = "Executed"
    /\ UNCHANGED << reason, tx, round, sims, simulated, published, chain,
                    gas, wallet, requested, payer_before >>
    /\ UNCHANGED << harness, relays >>

\* Step 5: execute the transaction, passing the funded payer.
Execute ==
    /\ state = "Funded"
    /\ executed' = Append(executed, ConvertTransaction(tx, Ctx))
    /\ payer_submitted' = payer_lamports
    /\ \E spent \in Spendings(payer_lamports) :
         payer_lamports' = payer_lamports - spent
    /\ state' = "Executed"
    /\ UNCHANGED << reason, tx, round, sims, simulated, published, chain,
                    gas, wallet, requested, payer_before >>
    /\ UNCHANGED << harness, relays >>

\* The submission is rejected: the ledger keeps its state.
ExecutionFails ==
    /\ state = "Funded"
    /\ executed' = Append(executed, ConvertTransaction(tx, Ctx))
    /\ payer_submitted' = payer_lamports
    /\ Fail("ExecutionFailure")
    /\ UNCHANGED << tx, round, sims, simulated, published, chain, gas,
                    wallet, payer_lamports, requested, payer_before >>
    /\ UNCHANGED << harness, relays >>

Next ==
    \/ GetAccountInfo
    \/ ParseAccount
    \/ Simulate
    \/ SimulationReturns
    \/ SimulationFails
    \/ Finalize
    \/ FundPayer
    \/ Execute
    \/ ExecutionFails

Spec == Init /\ [][Next]_vars

TypeOK ==
    /\ state \in {"Start", "AwaitDescriptor", "Decoded", "Simulating",
                  "Final", "Funded", "Executed", "Failed"}
    /\ round \in 0..RoundCap
    /\ sims \in 0..RoundCap
    /\ payer_lamports >= 0

(***************************************************************************)
(* Properties of the resolution loop.                                      *)
(***************************************************************************)
\* The configured maximum of rounds of the specification.
RoundLimit == MaxChain + 1

\* The last answer of the chain is an intact final transaction: the chain
\* is Len(chain) - 1 non-final transactions followed by a final one.
EndsFinal ==
    /\ published
    /\ chain[Len(chain)].damage = Intact
    /\ chain[Len(chain)].tx.is_final

\* C1: a chain of N non-final transactions followed by a final one is in
\* Final after exactly N + 1 rounds and exactly N simulations, and the round
\* counter moves only by one, and does so exactly when a response is parsed
\* into a RelayerTransaction (the step into Decoded).
C1_RoundsExact ==
    /\ [](state \in {"Final", "Funded", "Executed"} =>
            /\ EndsFinal
            /\ round = (Len(chain) - 1) + 1
            /\ sims = Len(chain) - 1)
    /\ [][ /\ (round' # round => round' = round + 1 /\ state' = "Decoded")
           /\ (state' = "Decoded" => round' = round + 1)
           /\ (sims' # sims => sims' = sims + 1 /\ state' = "Simulating") ]_vars

C1_Witness ==
    /\ state = "Final"
    /\ Len(chain) = MaxChain + 1
    /\ round = MaxChain + 1
    /\ sims = MaxChain

\* C2: a chain that never becomes final ends in Failed(MaxRoundsExceeded):
\* the round counter passes the limit only into that failure.
C2_MaxRoundsExceeded ==
    round > RoundLimit => (state = "Failed" /\ reason = "MaxRoundsExceeded")

\* C3: what is submitted for execution is the conversion of a final
\* transaction, submitted from Final (funded); what is simulated is the
\* conversion of a non-final one; and no simulation starts once the held
\* transaction is final.
C3_OnlyFinalExecuted ==
    [][ /\ (executed' # executed =>
              /\ state = "Funded"
              /\ tx.is_final
              /\ executed' = Append(executed, ConvertTransaction(tx, Ctx)))
        /\ (state' = "Executed" => state = "Funded" /\ executed' # executed)
        /\ (state' = "Funded" => state = "Final")
        /\ (sims' # sims => ~tx.is_final /\ simulated' = ConvertTransaction(tx, Ctx))
        /\ (state \in {"Decoded", "Final", "Funded"} /\ tx.is_final =>
              sims' = sims /\ simulated' = simulated /\ tx' = tx) ]_vars

C3_Witness ==
    /\ state = "Executed"
    /\ sims = MaxChain
    /\ Len(executed) = 1
    /\ executed[1] # << >>
    /\ executed[1] # simulated

(***************************************************************************)
(* Properties of the funding of the payer.                                 *)
(***************************************************************************)
\* The payer entries of a transaction: <<instruction, account>> positions.
PayerEntries(t) ==
    { ij \in UNION { { <<i, j>> : j \in 1..Len(t.instructions[i].accounts) } :
                       i \in 1..Len(t.instructions) } :
        t.instructions[ij[1]].accounts[ij[2]].kind = "Payer" }

RECURSIVE SumOver(_, _)
\* The sum of the lamports of a set of payer entries of t.
SumOver(t, E) ==
    IF E = {} THEN 0
    ELSE LET e == CHOOSE x \in E : TRUE
         IN  t.instructions[e[1]].accounts[e[2]].lamports
               + SumOver(t, E \ {e})

C5_FundingMismatch ==
    /\ [][ (state = "Final" /\ SumOver(tx, PayerEntries(tx)) > gas) =>
             /\ state' = "Failed"
             /\ reason' = "FundingMismatch"
             /\ UNCHANGED << payer_lamports, wallet, gas, executed >> ]_vars
    /\ [][ state # "Failed" ]_vars
    /\ [](reason = "FundingMismatch" =>
            /\ state = "Failed"
            /\ executed = << >>
            /\ wallet = gas + WalletReserve
            /\ payer_submitted = 0)

C5_Witness ==
    /\ state = "Failed"
    /\ reason = "FundingMismatch"
    /\ SumOver(tx, PayerEntries(tx)) > gas
    /\ gas > 0
    /\ payer_lamports < SumOver(tx, PayerEntries(tx))

\* C6: when the funding goes through, what moves from the relayer to the
\* payer is exactly the funds requested minus what the payer holds, so that
\* the payer holds exactly the funds requested when the final transaction
\* is submitted, whatever it held before.
C6_ExactShortfall ==
    /\ [][ state' = "Funded" =>
             /\ wallet - wallet' = SumOver(tx, PayerEntries(tx)) - payer_lamports
             /\ payer_lamports' - payer_lamports = wallet - wallet'
             /\ payer_lamports' = SumOver(tx, PayerEntries(tx)) ]_vars
    /\ [](executed # << >> =>
            payer_submitted = SumOver(tx, PayerEntries(tx)))

C6_Witness ==
    /\ state = "Funded"
    /\ payer_before > requested
    /\ requested > 0
    /\ payer_lamports = requested

\* C7: the funds requested of an attempt are the sum of the lamports of all
\* the payer entries of all the instructions of the final transaction, each
\* counted once; the payer entries of the non-final transactions simulated
\* before do not count, and without a payer entry nothing is requested.
C7_FundsRequested ==
    /\ [](state \in {"Funded", "Executed"} =>
            /\ tx.is_final
            /\ requested = SumOver(tx, PayerEntries(tx))
            /\ (PayerEntries(tx) = {} => requested = 0))
    /\ [][ state' = "Funded" =>
             gas - gas' = SumOver(tx, PayerEntries(tx)) ]_vars

C7_Witness ==
    /\ state = "Funded"
    /\ Cardinality(PayerEntries(tx)) = 3
    /\ Len(tx.instructions) = 2
    /\ requested = 12
    /\ sims > 0
    /\ PayerEntries(chain[1].tx) # {}

(***************************************************************************)
(* Serialisation runs: a RelayerTransaction is serialised (to_vec) and the *)
(* bytes are deserialised again.                                           *)
(***************************************************************************)
RelayerIdle ==
    /\ state = "Start"
    /\ reason = "none"
    /\ tx = NoTransaction
    /\ round = 0
    /\ sims = 0
    /\ simulated = << >>
    /\ executed = << >>
    /\ published = FALSE
    /\ chain = << >>
    /\ gas = 0
    /\ wallet = 0
    /\ payer_lamports = 0
    /\ requested = 0
    /\ payer_before = 0
    /\ payer_submitted = 0

AccountEntries ==
    { Account(AccountMeta(KEY_A, FALSE, FALSE)),
      Account(AccountMeta(KEY_X, TRUE, TRUE)),
      IncomingMessage, MessagePayload, Payer(0), Payer(INTERCHAIN_TRANSFER_COST) }

DataEntries == { Bytes(<< >>), Bytes(<<EXECUTE>>), Bytes(<<1, 0, 255>>), Message }

Instructions(na, nd) ==
    { RelayerInstruction(PROGRAM_ID, as, ds) :
        as \in SeqUpTo(AccountEntries, na), ds \in SeqUpTo(DataEntries, nd) }

CodecInputs ==
    { RelayerTransaction(f, is) :
        f \in BOOLEAN,
        is \in {<< >>}
                 \cup { <<i>> : i \in Instructions(MaxAccounts, MaxData) }
                 \cup { <<i, j>> : i \in Instructions(1, 1), j \in Instructions(1, 1) } }
    \cup FinalTransactions \cup NonFinalTransactions

CodecInit ==
    /\ RelayerIdle
    /\ RelaysIdle
    /\ hstep = "given"
    /\ hin \in CodecInputs
    /\ hmid = << >>
    /\ hout = << >>

Serialise ==
    /\ hstep = "given"
    /\ hmid' = Encode(hin)
    /\ hstep' = "encoded"
    /\ UNCHANGED << hin, hout, relayer, relays >>

Deserialise ==
    /\ hstep = "encoded"
    /\ hout' = Decode(hmid)
    /\ hstep' = "decoded"
    /\ UNCHANGED << hin, hmid, relayer, relays >>

CodecNext == Serialise \/ Deserialise

CodecSpec == CodecInit /\ [][CodecNext]_vars

\* The discriminant the documentation gives to each variant.
AccountDiscriminant(a) ==
    CASE a.kind = "Account" -> 0
      [] a.kind = "IncomingMessage" -> 1
      [] a.kind = "MessagePayload" -> 2
      [] a.kind = "Payer" -> 3

DataDiscriminant(d) == IF d.kind = "Bytes" THEN 0 ELSE 1

Parsing ==
    \/ state = "AwaitDescriptor" /\ published
    \/ state = "Simulating"

ParsedAnswer ==
    IF state = "AwaitDescriptor" THEN chain[1]
    ELSE chain[IF sims + 1 <= Len(chain) THEN sims + 1 ELSE Len(chain)]

\* C9: bytes that are cut short, carry a discriminant outside the declared
\* range or a length prefix beyond the rest of the input do not deserialise,
\* and the relayer that parses them fails with DecodeError (or with the
\* failure of the simulation itself) without holding a new transaction.
C9_DecodeError ==
    /\ [](published /\ chain[Len(chain)].damage # Intact =>
            ~Decode(Wire(chain[Len(chain)])).ok)
    /\ [][ (Parsing /\ ParsedAnswer.damage # Intact) =>
             /\ state' = "Failed"
             /\ reason' \in {"DecodeError"}
                  \cup (IF state = "Simulating" THEN {"SimulationFailure"} ELSE {})
             /\ tx' = tx
             /\ round' = round ]_vars
    /\ [](reason = "DecodeError" =>
            /\ state = "Failed"
            /\ chain[round + 1].damage # Intact
            /\ executed = << >>)

C9_Witness ==
    /\ state = "Failed"
    /\ reason = "DecodeError"
    /\ round = MaxChain
    /\ chain[round + 1].damage.kind = "length"
    /\ chain[round + 1].damage.bytes # <<255, 255, 255, 255>>

(***************************************************************************)
(* Conversion runs: an instruction is converted, then two neighbouring     *)
(* elements of its data are exchanged and it is converted again.           *)
(***************************************************************************)
ChunkEntries == DataEntries \cup { Bytes(<<EXECUTE, EXECUTE>>) }

ConvertInit ==
    /\ RelayerIdle
    /\ RelaysIdle
    /\ hstep = "given"
    /\ hin \in { RelayerInstruction(PROGRAM_ID, as, ds) :
                   as \in { << >>, << MessagePayload >> },
                   ds \in SeqUpTo(ChunkEntries, MaxChunks) }
    /\ hmid = << >>
    /\ hout = << >>

Convert ==
    /\ hstep = "given"
    /\ hmid' = ConvertInstruction(hin, Ctx)
    /\ hstep' = "converted"
    /\ UNCHANGED << hin, hout, relayer, relays >>

\* hin.data with the elements at k and k + 1 exchanged.
Exchanged(data, k) ==
    [i \in 1..Len(data) |->
       IF i = k THEN data[k + 1] ELSE IF i = k + 1 THEN data[k] ELSE data[i]]

ConvertReordered ==
    /\ hstep = "converted"
    /\ \E k \in 1..(Len(hin.data) - 1) :
         hout' = [at |-> k,
                  ix |-> ConvertInstruction(
                           RelayerInstruction(hin.program, hin.accounts,
                                              Exchanged(hin.data, k)), Ctx)]
    /\ hstep' = "reordered"
    /\ UNCHANGED << hin, hmid, relayer, relays >>

ConvertNext == Convert \/ ConvertReordered

ConvertSpec == ConvertInit /\ [][ConvertNext]_vars

\* The Borsh serialisation of TheMessage, byte by byte: source chain,
\* message id, source address, destination chain, destination address,
\* payload hash.
TheMessageBytes ==
    << 3, 0, 0, 0, 101, 116, 104,
       2, 0, 0, 0, 48, 120,
       1, 0, 0, 0, 115,
       3, 0, 0, 0, 115, 111, 108,
       3, 0, 0, 0, 100, 115, 116 >> \o [i \in 1..32 |-> 170]

\* The bytes a data element stands for.
ElementBytes(d) == IF d.kind = "Bytes" THEN d.bytes ELSE TheMessageBytes

\* data is the bytes of the elements, one after the other in their order.
IsOrderedConcatenation(data, elements) ==
    LET n == Len(elements)
        off[i \in 0..n] ==
            IF i = 0 THEN 0 ELSE off[i - 1] + Len(ElementBytes(elements[i]))
    IN  /\ Len(data) = off[n]
        /\ \A i \in 1..n :
             SubSeq(data, off[i - 1] + 1, off[i]) = ElementBytes(elements[i])

\* C10, as claimed: the data of the converted instruction is the ordered
\* concatenation of the bytes of its elements, and exchanging two elements
\* that differ changes it.
C10_ReorderingChanges ==
    /\ (hstep \in {"converted", "reordered"} =>
          IsOrderedConcatenation(hmid.data, hin.data))
    /\ (hstep = "reordered" /\ hin.data[hout.at] # hin.data[hout.at + 1] =>
          hout.ix.data # hmid.data)

\* C10, amended: the data of the converted instruction is the ordered
\* concatenation of the bytes of its elements; exchanging two neighbouring
\* elements changes it exactly when their bytes give different strings in
\* the two orders.
C10_Concatenation ==
    /\ (hstep \in {"converted", "reordered"} =>
          IsOrderedConcatenation(hmid.data, hin.data))
    /\ (hstep = "reordered" =>
          LET a == ElementBytes(hin.data[hout.at])
              b == ElementBytes(hin.data[hout.at + 1])
          IN  /\ IsOrderedConcatenation(hout.ix.data, Exchanged(hin.data, hout.at))
              /\ (hout.ix.data # hmid.data) <=> (a \o b # b \o a))

C10_Witness ==
    /\ hstep = "reordered"
    /\ hin.data = << Bytes(<<EXECUTE>>), Message, Bytes(<<1, 0, 255>>) >>
    /\ hout.at = 1
    /\ hout.ix.data # hmid.data
    /\ Len(hmid.data) = 1 + 64 + 3


(***************************************************************************)
(* Properties of the conversion of the accounts.                           *)
(***************************************************************************)
\* regular has one instruction for each instruction of t, in the order of
\* t, and each has one account for each entry of its accounts, in their
\* order.
PositionsPreserved(t, regular) ==
    /\ Len(regular) = Len(t.instructions)
    /\ \A k \in 1..Len(t.instructions) :
         /\ regular[k].program_id = t.instructions[k].program
         /\ Len(regular[k].accounts) = Len(t.instructions[k].accounts)
         /\ \A i \in 1..Len(t.instructions[k].accounts) :
              regular[k].accounts[i] =
                  ResolveAccount(t.instructions[k].accounts[i], Ctx)

\* C11: the regular transaction that is simulated or executed has the
\* instructions of the RelayerTransaction in their order, each with as many
\* accounts as the RelayerInstruction has entries, the account at index i
\* being the conversion of entry i, in every round; so that the executable
\* finds the message payload at accounts[0] in
\* relayer_discovery_build_transaction_1 and the token manager at
\* accounts[1] in relayer_discovery_build_transaction_2.
C11_PositionsPreserved ==
    /\ (state = "Simulating" => PositionsPreserved(tx, simulated))
    /\ (executed # << >> => PositionsPreserved(tx, executed[Len(executed)]))
    /\ (state = "Simulating" /\ tx = InitialTransaction =>
          simulated[1].accounts[1].pubkey = MESSAGE_PAYLOAD_PDA)
    /\ (state = "Simulating" /\ tx = BuildTransaction1 =>
          simulated[1].accounts[2].pubkey = TOKEN_MANAGER_PDA)

C11_Witness ==
    /\ state = "Simulating"
    /\ round = 2
    /\ tx = BuildTransaction1
    /\ Len(simulated[1].accounts) = 2
    /\ simulated[1].accounts[1].pubkey = MESSAGE_PAYLOAD_PDA
    /\ simulated[1].accounts[2] = AccountMeta(TOKEN_MANAGER_PDA, FALSE, TRUE)


TwoRounds ==
    /\ published
    /\ chain = << Answer(InitialTransaction, Intact),
                  Answer(FinalWithWritable, Intact) >>

\* The instruction FinalWithWritable converts to.
TwoRoundsInstruction ==
    [program_id |-> PROGRAM_ID,
     accounts   |-> << AccountMeta(PAYER, TRUE, TRUE),
                       AccountMeta(INCOMING_MESSAGE_PDA, FALSE, TRUE),
                       AccountMeta(MESSAGE_PAYLOAD_PDA, FALSE, FALSE),
                       AccountMeta(KEY_X, FALSE, TRUE) >>,
     data       |-> <<EXECUTE>> \o TheMessageBytes]

\* What the relayer has sent to the payer since the attempt began.
Transferred == (gas + requested + WalletReserve) - wallet

\* C17, as claimed: on the chain of two rounds the relayer simulates once,
\* executes one instruction with the four accounts payer, incoming message,
\* message payload, X in this order and the data 9 followed by the
\* serialised message, and has transferred exactly 1000 to the payer before
\* the execution.
C17_Transfers1000 ==
    (TwoRounds /\ state \in {"Funded", "Executed"} =>
        /\ sims = 1
        /\ round = 2
        /\ Transferred = INTERCHAIN_TRANSFER_COST)
    /\ (TwoRounds /\ state = "Executed" =>
          /\ executed = << << TwoRoundsInstruction >> >>
          /\ payer_submitted = INTERCHAIN_TRANSFER_COST)

\* C17, amended: the same, the payer holding exactly 1000 when the
\* transaction is submitted and the relayer having transferred 1000 less
\* what the payer held before.
C17_PayerHolds1000 ==
    (TwoRounds /\ state \in {"Funded", "Executed"} =>
        /\ sims = 1
        /\ round = 2
        /\ Transferred = INTERCHAIN_TRANSFER_COST - payer_before)
    /\ (TwoRounds /\ state = "Executed" =>
          /\ executed = << << TwoRoundsInstruction >> >>
          /\ payer_submitted = INTERCHAIN_TRANSFER_COST)

C17_Witness ==
    /\ TwoRounds
    /\ state = "Executed"
    /\ sims = 1
    /\ Len(executed[1][1].accounts) = 4
    /\ payer_before = 5
    /\ Transferred = INTERCHAIN_TRANSFER_COST - 5
    /\ payer_submitted = INTERCHAIN_TRANSFER_COST


(***************************************************************************)
(* Account runs: an entry of accounts is converted for a relay, and        *)
(* converted once more.                                                    *)
(***************************************************************************)
\* The accounts a relay may have for its payer and its message.
Contexts ==
    { [payer                |-> p,
       incoming_message_pda |-> i,
       message_payload_pda  |-> q,
       message              |-> TheMessage] :
        p \in {PAYER, KEY_A},
        i \in {INCOMING_MESSAGE_PDA, KEY_X},
        q \in {MESSAGE_PAYLOAD_PDA, KEY_X} }

ResolveEntries ==
    { Account(AccountMeta(k, s, w)) :
        k \in {KEY_A, KEY_X, PAYER}, s \in BOOLEAN, w \in BOOLEAN }
    \cup { IncomingMessage, MessagePayload }
    \cup { Payer(n) : n \in {0, INTERCHAIN_TRANSFER_COST, U64_MODEL_MAX} }

ResolveInit ==
    /\ RelayerIdle
    /\ RelaysIdle
    /\ hstep = "given"
    /\ hin \in { [ref |-> a, ctx |-> c] : a \in ResolveEntries, c \in Contexts }
    /\ hmid = << >>
    /\ hout = << >>

Resolve ==
    /\ hstep = "given"
    /\ hmid' = ResolveAccount(hin.ref, hin.ctx)
    /\ hstep' = "resolved"
    /\ UNCHANGED << hin, hout, relayer, relays >>

ResolveAgain ==
    /\ hstep = "resolved"
    /\ hout' = ResolveAccount(hin.ref, hin.ctx)
    /\ hstep' = "resolved again"
    /\ UNCHANGED << hin, hmid, relayer, relays >>

ResolveNext == Resolve \/ ResolveAgain

ResolveSpec == ResolveInit /\ [][ResolveNext]_vars

RoundAnswer(n) == chain[IF n <= Len(chain) THEN n ELSE Len(chain)]

\* C19: a simulation is submitted only when the response before it has
\* been parsed, and it is the conversion of exactly the transaction parsed
\* last; the simulations submitted are never more than one ahead of the
\* responses parsed, nothing is fetched or simulated while a simulation is
\* awaited, and the one execution is submitted when no simulation is
\* awaited.
C19_SequentialRounds ==
    /\ [][ sims' # sims =>
             /\ state = "Decoded"
             /\ round = sims + 1
             /\ tx = RoundAnswer(round).tx
             /\ simulated' = ConvertTransaction(RoundAnswer(round).tx, Ctx)
             /\ state' = "Simulating" ]_vars
    /\ [][ state = "Simulating" =>
             /\ sims' = sims
             /\ simulated' = simulated
             /\ executed' = executed
             /\ state' \in {"Decoded", "Failed"} ]_vars
    /\ [][ executed' # executed =>
             /\ state = "Funded"
             /\ sims = round - 1
             /\ executed = << >> ]_vars
    /\ [](round - 1 <= sims /\ sims <= round)
    /\ [](state = "Simulating" <=> (state # "Failed" /\ round > 0 /\ sims = round))
    /\ [](state = "AwaitDescriptor" => round = 0 /\ sims = 0 /\ executed = << >>)

C19_Witness ==
    /\ state = "Decoded"
    /\ round = 3
    /\ sims = 2
    /\ Len(chain) = 3
    /\ tx = chain[3].tx
    /\ chain[2].tx # chain[1].tx
    /\ simulated = ConvertTransaction(chain[2].tx, Ctx)


(***************************************************************************)
(* Several calls relayed at once: each call has its own run of the         *)
(* relayer's steps; the runs share the node, the funds of the relayer and  *)
(* the payers.                                                             *)
(***************************************************************************)
Messages == {1, 2}

\* keccak256('relayer-discovery-transaction')
TRANSACTION_PDA_SEED ==
    << 165, 113, 40, 52, 145, 50, 197, 140, 87, 0, 103, 65, 149, 223, 129, 239,
       94, 232, 155, 195, 111, 14, 150, 118, 186, 231, 225, 71, 155, 127, 206,
       222 >>

\* Pubkey::find_program_address.  The hash is not computed: the address is
\* identified by the seeds and the program id it is derived from.
FindProgramAddress(seeds, program_id) ==
    [seeds |-> seeds, program_id |-> program_id]

\* The transaction_pda the InterchainTokenService initialised, and its data.
InitialisedPda == FindProgramAddress(<< TRANSACTION_PDA_SEED >>, PROGRAM_ID)

\* getAccountInfo
AccountInfo(address) ==
    IF address = InitialisedPda
    THEN [exists |-> TRUE, data |-> Encode(InitialTransaction)]
    ELSE [exists |-> FALSE, data |-> << >>]

\* The transaction_pda, derived from the message as well.
TransactionPda_PerMessage(call) ==
    FindProgramAddress(<< TRANSACTION_PDA_SEED, call.message.cc_id.id >>,
                       call.program)

\* The transaction_pda of the destination of a call.
TransactionPda(call) ==
    FindProgramAddress(<< TRANSACTION_PDA_SEED >>, call.program)

OTHER_PAYER == Key(9)
Payers == {PAYER, OTHER_PAYER}

OtherMessage == [TheMessage EXCEPT !.cc_id.id = <<48, 121>>]

\* The calls: the destination, the message, the payer, the gas offered and
\* what the simulations return.
Call(program, message, payer, gas_offered, returns) ==
    [program |-> program, message |-> message, payer |-> payer,
     gas |-> gas_offered, returns |-> returns]

Calls ==
    { Call(PROGRAM_ID, TheMessage, PAYER,
           INTERCHAIN_TRANSFER_COST + MaxExecCost,
           << Answer(BuildTransaction1, Intact),
              Answer(BuildTransaction2, Intact) >>),
      Call(PROGRAM_ID, OtherMessage, PAYER, 12,
           << Answer(FinalTwoInstructions, Intact) >>),
      Call(PROGRAM_ID, OtherMessage, OTHER_PAYER, 12,
           << Answer(BuildTransaction2, CutAt(1)) >>),
      Call(KEY_A, TheMessage, OTHER_PAYER, 12, << >>) }

CallCtx(call) ==
    [payer                |-> call.payer,
     incoming_message_pda |-> INCOMING_MESSAGE_PDA,
     message_payload_pda  |-> MESSAGE_PAYLOAD_PDA,
     message              |-> call.message]

StartOfLoop(call) ==
    [state |-> "Start", reason |-> "none", tx |-> NoTransaction, round |-> 0,
     sims |-> 0, fetched |-> << >>, simulated |-> << >>, executed |-> << >>,
     gas |-> call.gas, requested |-> 0, payer_before |-> 0,
     payer_submitted |-> 0]

RECURSIVE SumGas(_, _)
SumGas(cs, M) ==
    IF M = {} THEN 0
    ELSE LET m == CHOOSE x \in M : TRUE IN cs[m].gas + SumGas(cs, M \ {m})

RelaysInit ==
    /\ RelayerIdle
    /\ HarnessIdle
    /\ calls \in [Messages -> Calls]
    /\ loops = [m \in Messages |-> StartOfLoop(calls[m])]
    /\ funds = [payer  |-> [p \in Payers |-> 5],
                wallet |-> SumGas(calls, Messages) + WalletReserve]
    /\ signalled = {}

Terminal(m) == loops[m].state \in {"Executed", "Failed"}

\* The loop of m becomes l; nothing else of the relays changes but what the
\* action says.
Becomes(m, l) == loops' = [loops EXCEPT ![m] = l]

\* LoopFail, giving up every relay in flight.
LoopFail_All(m, why) ==
    loops' = [n \in Messages |->
                IF n = m \/ ~Terminal(n)
                THEN [loops[n] EXCEPT !.state = "Failed", !.reason = why]
                ELSE loops[n]]

\* A step of the relay of m failing.
LoopFail(m, why) ==
    Becomes(m, [loops[m] EXCEPT !.state = "Failed", !.reason = why])

\* Parsed(m, r): the relay of m has parsed a response.
Parsed(m, r) ==
    IF r.ok
    THEN Becomes(m, [loops[m] EXCEPT !.state = "Decoded", !.tx = r.val,
                                     !.round = @ + 1])
    ELSE LoopFail(m, "DecodeError")


\* Step 1: getAccountInfo for the transaction_pda.
RelayGetAccountInfo(m) ==
    /\ loops[m].state = "Start"
    /\ Becomes(m, [loops[m] EXCEPT
                     !.state = "AwaitDescriptor",
                     !.fetched = Append(@, TransactionPda(calls[m]))])
    /\ UNCHANGED << calls, funds, signalled >>

\* Step 2: parse the response into a RelayerTransaction.
RelayParseAccount(m) ==
    /\ loops[m].state = "AwaitDescriptor"
    /\ \E a \in { AccountInfo(loops[m].fetched[Len(loops[m].fetched)]) } :
         IF ~a.exists
         THEN LoopFail(m, "AccountNotFoundError")
         ELSE \E r \in { Decode(a.data) } : Parsed(m, r)
    /\ UNCHANGED << calls, funds, signalled >>

\* while(!relayer_transaction_is_final): convert and simulate.
RelaySimulate(m) ==
    /\ loops[m].state = "Decoded"
    /\ ~loops[m].tx.is_final
    /\ Becomes(m, [loops[m] EXCEPT
                     !.state = "Simulating",
                     !.sims = @ + 1,
                     !.simulated = ConvertTransaction(loops[m].tx,
                                                      CallCtx(calls[m]))])
    /\ UNCHANGED << calls, funds, signalled >>

\* The return data of the last simulation of the relay of m; the last
\* answer is returned again when the relay goes on.
RelayReturnData(m) ==
    Wire(calls[m].returns[IF loops[m].sims <= Len(calls[m].returns)
                          THEN loops[m].sims ELSE Len(calls[m].returns)])

\* relayer_transaction = simulate().return_data.decode()
RelaySimulationReturns(m) ==
    /\ loops[m].state = "Simulating"
    /\ loops[m].round < RoundCap
    /\ \E r \in { Decode(RelayReturnData(m)) } : Parsed(m, r)
    /\ UNCHANGED << calls, funds, signalled >>

\* simulateTransaction reports an error.
RelaySimulationFails(m) ==
    /\ loops[m].state = "Simulating"
    /\ LoopFail(m, "SimulationFailure")
    /\ UNCHANGED << calls, funds, signalled >>

\* The loop ends on a final RelayerTransaction.
RelayFinalize(m) ==
    /\ loops[m].state = "Decoded"
    /\ loops[m].tx.is_final
    /\ Becomes(m, [loops[m] EXCEPT !.state = "Final"])
    /\ UNCHANGED << calls, funds, signalled >>

\* Step 4: if the gas covers the amount requested alongside what the
\* execution needs, make sure the payer has exactly the funds requested.
RelayFundPayer(m) ==
    /\ loops[m].state = "Final"
    /\ \E cost \in 0..MaxExecCost :
         \E total \in { FundsRequested(loops[m].tx) } :
           IF loops[m].gas >= total + cost
           THEN /\ Becomes(m, [loops[m] EXCEPT
                                 !.state = "Funded",
                                 !.gas = @ - total,
                                 !.requested = total,
                                 !.payer_before = funds.payer[calls[m].payer]])
                /\ funds' =
                     [payer  |-> [funds.payer EXCEPT ![calls[m].payer] = total],
                      wallet |-> funds.wallet
                                   - (total - funds.payer[calls[m].payer])]
           ELSE /\ LoopFail(m, "FundingMismatch")
                /\ UNCHANGED funds
    /\ UNCHANGED << calls, signalled >>

\* Step 5: execute the transaction, passing the funded payer.
RelayExecute(m) ==
    /\ loops[m].state = "Funded"
    /\ \E spent \in Spendings(funds.payer[calls[m].payer]) :
         /\ Becomes(m, [loops[m] EXCEPT
                          !.state = "Executed",
                          !.executed =
                              Append(@, ConvertTransaction(loops[m].tx,
                                                           CallCtx(calls[m]))),
                          !.payer_submitted = funds.payer[calls[m].payer]])
         /\ funds' = [funds EXCEPT !.payer[calls[m].payer] = @ - spent]
    /\ UNCHANGED << calls, signalled >>

\* The submission is rejected: the ledger keeps its state.
RelayExecutionFails(m) ==
    /\ loops[m].state = "Funded"
    /\ Becomes(m, [loops[m] EXCEPT
                     !.state = "Failed",
                     !.reason = "ExecutionFailure",
                     !.executed =
                         Append(@, ConvertTransaction(loops[m].tx,
                                                      CallCtx(calls[m]))),
                     !.payer_submitted = funds.payer[calls[m].payer]])
    /\ UNCHANGED << calls, funds, signalled >>

\* The relay of m is told to stop: it is cancelled, or its time is up.
Signal(m) ==
    /\ ~Terminal(m)
    /\ m \notin signalled
    /\ signalled' = signalled \cup {m}
    /\ UNCHANGED << calls, loops, funds >>

\* A step of the relay of m.
RelayStep(m) ==
    \/ RelayGetAccountInfo(m)
    \/ RelayParseAccount(m)
    \/ RelaySimulate(m)
    \/ RelaySimulationReturns(m)
    \/ RelaySimulationFails(m)
    \/ RelayFinalize(m)
    \/ RelayFundPayer(m)
    \/ RelayExecute(m)
    \/ RelayExecutionFails(m)

RelaysNext ==
    \/ \E m \in Messages : RelayGetAccountInfo(m) /\ UNCHANGED << relayer, harness >>
    \/ \E m \in Messages : RelayParseAccount(m) /\ UNCHANGED << relayer, harness >>
    \/ \E m \in Messages : RelaySimulate(m) /\ UNCHANGED << relayer, harness >>
    \/ \E m \in Messages : RelaySimulationReturns(m) /\ UNCHANGED << relayer, harness >>
    \/ \E m \in Messages : RelaySimulationFails(m) /\ UNCHANGED << relayer, harness >>
    \/ \E m \in Messages : RelayFinalize(m) /\ UNCHANGED << relayer, harness >>
    \/ \E m \in Messages : RelayFundPayer(m) /\ UNCHANGED << relayer, harness >>
    \/ \E m \in Messages : RelayExecute(m) /\ UNCHANGED << relayer, harness >>
    \/ \E m \in Messages : RelayExecutionFails(m) /\ UNCHANGED << relayer, harness >>
    \/ \E m \in Messages : Signal(m) /\ UNCHANGED << relayer, harness >>

RelaysSpec == RelaysInit /\ [][RelaysNext]_vars


(***************************************************************************)
(* Properties of the relays side by side.                                  *)
(***************************************************************************)
\* C14: the address a relay fetches is derived from the single seed and the
\* program id of the destination, so two relays to the same program fetch
\* the same address whatever their message, their payer, their round and
\* the transactions returned to them; a relay fetches once, at its first
\* step, and takes the later transactions from the return data.
C14_SingleSeed ==
    /\ [](\A m \in Messages : \A i \in 1..Len(loops[m].fetched) :
            /\ loops[m].fetched[i].program_id = calls[m].program
            /\ loops[m].fetched[i].seeds = << TRANSACTION_PDA_SEED >>)
    /\ [](\A m, n \in Messages :
            (/\ calls[m].program = calls[n].program
             /\ loops[m].fetched # << >>
             /\ loops[n].fetched # << >>) =>
                loops[m].fetched = loops[n].fetched)
    /\ [](\A m \in Messages :
            /\ Len(loops[m].fetched) <= 1
            /\ (loops[m].state # "Start" => Len(loops[m].fetched) = 1))
    /\ [][ \A m \in Messages :
             loops'[m].fetched # loops[m].fetched =>
                 loops[m].state = "Start" /\ loops[m].round = 0 ]_vars

C14_Witness ==
    /\ calls[1].program = calls[2].program
    /\ calls[1].message # calls[2].message
    /\ calls[1].payer # calls[2].payer
    /\ loops[1].round = 3
    /\ loops[2].round = 1
    /\ loops[2].state = "Failed"
    /\ loops[1].fetched = << InitialisedPda >>
    /\ loops[2].fetched = loops[1].fetched


\* A step of the relay of m that does not fail.
Advances(m) == RelayStep(m) /\ loops'[m].state # "Failed"

\* The call of m is to the program that initialised its transaction_pda and
\* its simulations end on an intact final transaction.
Executable(m) ==
    /\ calls[m].program = PROGRAM_ID
    /\ calls[m].returns # << >>
    /\ calls[m].returns[Len(calls[m].returns)].damage = Intact
    /\ calls[m].returns[Len(calls[m].returns)].tx.is_final

\* C15: a step of a relay, a failing one included, changes the loop of no
\* other relay; a relay that has not ended can take a step whatever the
\* other relays are waiting for or have failed with, and a relay whose call
\* can be executed can take a step that does not fail, until it has
\* executed.
C15_Independent ==
    /\ [][ \A m \in Messages :
             loops'[m] # loops[m] =>
                 \A n \in Messages \ {m} : loops'[n] = loops[n] ]_vars
    /\ [](\A n \in Messages : ~Terminal(n) => ENABLED RelayStep(n))
    /\ [](\A n \in Messages :
            (~Terminal(n) /\ Executable(n)) => ENABLED Advances(n))

C15_Witness ==
    /\ loops[1].state = "Failed"
    /\ loops[1].reason = "DecodeError"
    /\ loops[2].state = "Executed"
    /\ loops[2].round = 3
    /\ loops[2].executed # << >>


\* C16: a relay that is told to stop while it has not ended fails with
\* Cancelled at its next step: from then on it fetches nothing, submits no
\* simulation, moves no funds, submits no execution, and it is never
\* Executed.
C16_Cancelled ==
    /\ [][ \A m \in signalled :
             /\ loops'[m].fetched = loops[m].fetched
             /\ loops'[m].sims = loops[m].sims
             /\ loops'[m].gas = loops[m].gas
             /\ loops'[m].executed = loops[m].executed
             /\ (loops'[m] # loops[m] =>
                   /\ loops'[m].state = "Failed"
                   /\ loops'[m].reason = "Cancelled") ]_vars
    /\ [](\A m \in signalled : loops[m].state # "Executed")


\* C20: relays from the same payer do not interleave on its balance: every
\* final transaction is submitted with the payer holding exactly the funds
\* it requests, and between the funding and the execution of a relay no
\* other relay changes the balance of its payer.
C20_PayerSerialised ==
    /\ [](\A m \in Messages :
            loops[m].executed # << >> =>
                loops[m].payer_submitted = loops[m].requested)
    /\ [][ \A m \in Messages :
             (loops[m].state = "Funded" /\ loops'[m].state = "Funded") =>
                 funds'.payer[calls[m].payer] = funds.payer[calls[m].payer] ]_vars


(***************************************************************************)
(* The end of an attempt.                                                  *)
(***************************************************************************)
\* C21: Failed and Executed are where an attempt ends: from either, the
\* relayer fetches nothing, simulates nothing, moves no funds and submits
\* nothing; a reason, once recorded, is never changed, and an attempt has a
\* reason exactly when it is Failed.
C21_Absorbing ==
    /\ [][ (state \in {"Failed", "Executed"}) => UNCHANGED relayer ]_vars
    /\ [][ reason # "none" => reason' = reason ]_vars
    /\ [](state = "Failed" <=> reason # "none")

C21_Witness ==
    /\ state = "Failed"
    /\ reason = "SimulationFailure"
    /\ round = 2
    /\ sims = 2
    /\ executed = << >>


\* The attempt has not reached Final: it is in one of the steps before, or
\* it failed in one of them.
BeforeFinal ==
    \/ state \in {"Start", "AwaitDescriptor", "Simulating"}
    \/ state = "Decoded" /\ ~tx.is_final
    \/ /\ state = "Failed"
       /\ reason \in {"AccountNotFoundError", "DecodeError",
                       "SimulationFailure"}

\* C22: no funds move before Final: a step taken before Final leaves the
\* gas, the funds of the relayer and the balance of the payer as they are,
\* the relayer sends funds only in the step from Final, and an attempt that
\* has not reached Final, failed or not, has transferred nothing and holds
\* its whole gas.
C22_NoFundingBeforeFinal ==
    /\ [][ /\ (BeforeFinal =>
                  UNCHANGED << gas, wallet, payer_lamports, requested >>)
           /\ (wallet' # wallet => state = "Final" /\ state' = "Funded") ]_vars
    /\ [](BeforeFinal =>
            /\ Transferred = 0
            /\ requested = 0
            /\ gas \in GasOffers
            /\ payer_lamports \in PayerBalances)

C22_Witness ==
    /\ state = "Failed"
    /\ reason = "SimulationFailure"
    /\ tx = NonFinalWithPayer
    /\ FundsRequested(tx) = 7
    /\ sims = 1
    /\ payer_lamports = 5
    /\ wallet = gas + WalletReserve


(***************************************************************************)
(* A round of simulation.                                                  *)
(***************************************************************************)
\* C23: a round of simulation changes nothing on the ledger: submitting the
\* simulation and parsing its response leave the balances, the gas, the
\* contents of the transaction_pda and the answers of the node as they are
\* and submit nothing for execution; each simulation gives one buffer of
\* return data, and parsing it changes only the transaction held, which
\* becomes what that buffer deserialises to, and the round, which moves by
\* one.
C23_SimulationLeavesLedger ==
    /\ [][ (state' = "Simulating" \/ state = "Simulating") =>
             UNCHANGED << ledger, published, chain, executed >> ]_vars
    /\ [][ (state' = "Simulating") =>
             /\ state = "Decoded"
             /\ sims' = sims + 1
             /\ UNCHANGED << tx, round, reason >> ]_vars
    /\ [][ (state = "Simulating" /\ state' = "Decoded") =>
             /\ Decode(ReturnData(sims)).ok
             /\ tx' = Decode(ReturnData(sims)).val
             /\ round' = round + 1
             /\ UNCHANGED << sims, simulated, reason >> ]_vars
    /\ [](state = "Simulating" => sims = round)
    /\ [](state = "Decoded" => sims = round - 1)

C23_Witness ==
    /\ state = "Decoded"
    /\ round = 2
    /\ sims = 1
    /\ chain[1].tx = NonFinalWithPayer
    /\ tx = BuildTransaction1
    /\ tx = Decode(ReturnData(1)).val
    /\ payer_lamports = 5
    /\ wallet = gas + WalletReserve
    /\ executed = << >>


(***************************************************************************)
(* Transactions without instructions.                                      *)
(***************************************************************************)
\* C24: a transaction the relayer holds once parsed has at least one
\* instruction: bytes that deserialise to a RelayerTransaction without
\* instructions, fetched from the transaction_pda or returned by a
\* simulation, are never simulated and never executed as an empty
\* transaction.
C24_AtLeastOneInstruction ==
    /\ (state \in {"Decoded", "Final"} => Len(tx.instructions) >= 1)
    /\ (state = "Simulating" => simulated # << >>)
    /\ \A i \in 1..Len(executed) : executed[i] # << >>

====
